---- MODULE Spec2Model ----
(***************************************************************************)
(* State-machine model of blinkpy's BlinkSyncModule                        *)
(* (src/blinkpy/sync_module.py).                                           *)
(*                                                                         *)
(* The program state is the attributes of one BlinkSyncModule instance.    *)
(* Every public method is one action; the responses of the remote service  *)
(* (the blinkpy.api request functions) are the inputs of the action.       *)
(* The observation variables op/ret/raised/calls/inp record, for the last  *)
(* method call, its name, its return value, the exception that escaped it, *)
(* the remote requests it issued and the responses it was served.          *)
(***************************************************************************)
EXTENDS Integers, Sequences, FiniteSets, TLC

VARIABLES network_id, summary, sync_id, serial, status, events, homescreen,
          network_info, cameras, motion, last_record,
          videos, all_clips, record_dates,
          op, ret, raised, calls, inp

prog == <<network_id, summary, sync_id, serial, status, events, homescreen,
          network_info, cameras, motion, last_record,
          videos, all_clips, record_dates>>
obs  == <<op, ret, raised, calls, inp>>
vars == <<prog, obs>>

-----------------------------------------------------------------------------
(* Bounds of the model.                                                    *)

\* longest camera-info list ('devicestatus') a response carries
MaxCams == 2
\* longest video listing ('videos') a response carries
MaxEntries == 2
\* last page number get_videos is asked for
MaxPage == 1

-----------------------------------------------------------------------------
(* Python values.                                                          *)

\* Python None, for the scalar attributes
None == "None"
\* a key that a JSON mapping does not have
Missing == "<missing>"
\* no exception escaped / no value was returned because one did
NoExc == "none"
NoReturn == "<raised>"
\* no call is in progress and the result of the last one has been consumed
Idle == "idle"

\* d[k] = v on a Python dict d (a function with a finite domain)
Put(d, k, v) == [x \in (DOMAIN d) \cup {k} |-> IF x = k THEN v ELSE d[x]]
EmptyDict == [x \in {} |-> FALSE]

\* Outcome of response[key] by the shape of the response: None[key] raises
\* TypeError, a mapping without the key raises KeyError.
Subscript(kind) ==
    CASE kind = "None"  -> "TypeError"
      [] kind = "nokey" -> "KeyError"
      [] OTHER          -> "ok"

\* str.lower() on the camera names of the model
lower(s) ==
    CASE s = "Cam1" -> "cam1"
      [] s = "cam1" -> "cam1"
      [] s = "Cam2" -> "cam2"
      [] OTHER      -> s

Names == {"Cam1", "cam1", "Cam2"}

-----------------------------------------------------------------------------
(* requests.structures.CaseInsensitiveDict, as used for self.cameras:      *)
(* the store maps key.lower() to (key as last set, value).                 *)

CidSet(d, key, val) == Put(d, lower(key), [key |-> key, value |-> val])
CidHas(d, key) == lower(key) \in DOMAIN d
CidGet(d, key) == d[lower(key)].value
CidKeys(d) == {d[k].key : k \in DOMAIN d}

-----------------------------------------------------------------------------
(* Remote responses.                                                       *)

NoSummary == [network_id |-> Missing, id |-> Missing, serial |-> Missing,
              status |-> Missing]
\* request_syncmodule: None, a mapping without 'syncmodule', or one with it
StatusNone  == [kind |-> "None",  syncmodule |-> NoSummary]
StatusNoKey == [kind |-> "nokey", syncmodule |-> NoSummary]
StatusOk(s) == [kind |-> "ok",    syncmodule |-> s]

\* request_sync_events
EventsNone  == [kind |-> "None",  event |-> <<>>]
EventsNoKey == [kind |-> "nokey", event |-> <<>>]
EventsOk(l) == [kind |-> "ok",    event |-> l]

\* request_network_status (passed through unvalidated)
NetNone   == [kind |-> "None", armed |-> FALSE]
NetOk(a)  == [kind |-> "ok",   armed |-> a]

\* request_cameras
CamsNone  == [kind |-> "None",  devicestatus |-> <<>>]
CamsNoKey == [kind |-> "nokey", devicestatus |-> <<>>]
CamsOk(l) == [kind |-> "ok",    devicestatus |-> l]

\* request_videos(time=last_refresh, page=0)
VideosNone  == [kind |-> "None",  videos |-> <<>>]
VideosNoKey == [kind |-> "nokey", videos |-> <<>>]
VideosOk(l) == [kind |-> "ok",    videos |-> l]

\* request_videos(page=n), as get_videos reads it: None, a mapping with a
\* 'message', or a list of clips.  A clip is a record (rec) with or without
\* each of its four keys, or a value that is no mapping at all: the string
\* 'message' (is_message), which line 173 finds in the list, or any other.
PageNone    == [kind |-> "None",    entries |-> <<>>]
PageMessage == [kind |-> "message", entries |-> <<>>]
PageList(l) == [kind |-> "list",    entries |-> l]
Clip(n, a, th, t) == [rec |-> TRUE, is_message |-> FALSE, camera_name |-> n,
                      address |-> a, thumbnail |-> th, created_at |-> t]
NoRecord == [rec |-> FALSE, is_message |-> FALSE, camera_name |-> Missing,
             address |-> Missing, thumbnail |-> Missing, created_at |-> Missing]
MessageString == [NoRecord EXCEPT !.is_message = TRUE]

\* a remote request: the api function, the network id it is addressed with
\* and the page it asks for ("-" / -1 where the request has none)
Call(fn, nid, page) == [fn |-> fn, nid |-> nid, page |-> page]

\* the responses served to a call; NotFetched marks a fetch the call did not make
NotFetched(r) == [r EXCEPT !.kind = "notfetched"]
NoInput == [status |-> NotFetched(StatusNone), events |-> NotFetched(EventsNone),
            net |-> NotFetched(NetNone), cams |-> NotFetched(CamsNone),
            videos |-> NotFetched(VideosNone), force_cache |-> FALSE,
            start_page |-> -1, end_page |-> -1, pages |-> <<>>, value |-> FALSE]

-----------------------------------------------------------------------------
(* Values of the attributes.                                               *)

\* self.summary: None or the 'syncmodule' mapping
SummaryNone    == [t |-> "None", v |-> NoSummary]
SummaryDict(s) == [t |-> "dict", v |-> s]
\* a list, or the sentinel False (self.events, the value of get_events and of
\* get_camera_info)
PyFalse        == [t |-> "False", v |-> <<>>]
PyList(l)      == [t |-> "list",  v |-> l]
\* self.videos / self.all_clips / self.record_dates: __init__ creates none of
\* them, so each is an absent attribute until a method assigns it
AttrUnset      == [set |-> FALSE, v |-> EmptyDict]
AttrDict(d)    == [set |-> TRUE,  v |-> d]

\* The camera collaborator (blinkpy.camera.BlinkCamera): an object that keeps
\* the config payload and the force_cache flag of its last update().
NewCamera == [config |-> [name |-> Missing], force_cache |-> FALSE]
CameraUpdate(cam, camera_config, force_cache) ==
    [config |-> camera_config, force_cache |-> force_cache]

-----------------------------------------------------------------------------
(* __init__                                                                *)

\* the attributes as __init__ leaves them ("n1" is the constructor's network_id)
Constructed ==
    /\ network_id = "n1"
    /\ summary = SummaryNone
    /\ sync_id = None
    /\ serial = None
    /\ status = None
    /\ events = PyList(<<>>)
    /\ homescreen = None
    /\ network_info = NetNone
    /\ cameras = EmptyDict
    /\ motion = EmptyDict
    /\ last_record = EmptyDict
    /\ videos = AttrUnset
    /\ all_clips = AttrUnset
    /\ record_dates = AttrUnset

Init ==
    /\ Constructed
    /\ op = Idle
    /\ ret = None
    /\ raised = NoExc
    /\ calls = <<>>
    /\ inp = NoInput

-----------------------------------------------------------------------------
(* get_events / get_camera_info                                            *)

\* variant: the failure value of get_camera_info is returned here as well
get_events_Empty(re) ==
    IF Subscript(re.kind) = "ok" THEN PyList(re.event) ELSE PyList(<<>>)

get_events(re) ==
    IF Subscript(re.kind) = "ok" THEN PyList(re.event) ELSE PyFalse

\* variant: the failure value of get_events is returned here as well
get_camera_info_False(rc) ==
    IF Subscript(rc.kind) = "ok" THEN PyList(rc.devicestatus) ELSE PyFalse

get_camera_info(rc) ==
    IF Subscript(rc.kind) = "ok" THEN PyList(rc.devicestatus) ELSE PyList(<<>>)

-----------------------------------------------------------------------------
(* check_new_videos                                                        *)

\* lines 228-229: reset the flag of every key of self.cameras
ResetMotion(cams, mot) ==
    [n \in (DOMAIN mot) \cup CidKeys(cams) |->
        IF n \in CidKeys(cams) THEN FALSE ELSE mot[n]]

\* variant: the flag is set and the record of the clip is not written
RecordEntry_MotionOnly(st, entry) ==
    IF \/ entry.camera_name = Missing
       \/ entry.address = Missing
       \/ entry.created_at = Missing
    THEN st
    ELSE [st EXCEPT !.motion = Put(st.motion, entry.camera_name, TRUE)]

\* variant: the flag is set as soon as the camera name is read
RecordEntry_Eager(st, entry) ==
    IF entry.camera_name = Missing THEN st
    ELSE IF entry.address = Missing \/ entry.created_at = Missing
    THEN [st EXCEPT !.motion = Put(st.motion, entry.camera_name, TRUE)]
    ELSE [motion |-> Put(st.motion, entry.camera_name, TRUE),
          last_record |-> Put(st.last_record, entry.camera_name,
                              [clip |-> entry.address, time |-> entry.created_at])]

\* lines 238-245: one entry of the listing; st = [motion, last_record].
\* The three lookups come first, so a KeyError leaves both maps alone.
RecordEntry(st, entry) ==
    IF \/ entry.camera_name = Missing
       \/ entry.address = Missing
       \/ entry.created_at = Missing
    THEN st
    ELSE [motion |-> Put(st.motion, entry.camera_name, TRUE),
          last_record |-> Put(st.last_record, entry.camera_name,
                              [clip |-> entry.address, time |-> entry.created_at])]

RECURSIVE RecordEntries(_, _)
\* lines 237-245: the loop over the listing
RecordEntries(st, info) ==
    IF info = <<>> THEN st
    ELSE RecordEntries(RecordEntry(st, Head(info)), Tail(info))

\* variant: the flags are reset only once the listing has been read
CheckNewVideos_ResetAfterParse(cams, mot, lr, resp) ==
    IF Subscript(resp.kind) # "ok"
    THEN [motion |-> mot, last_record |-> lr, ret |-> "False"]
    ELSE LET st == RecordEntries([motion |-> ResetMotion(cams, mot), last_record |-> lr],
                                 resp.videos)
         IN  [motion |-> st.motion, last_record |-> st.last_record, ret |-> "True"]

\* lines 222-247 on the given attributes: the new motion and last_record and
\* the return value
CheckNewVideos(cams, mot, lr, resp) ==
    LET reset == ResetMotion(cams, mot) IN
    IF Subscript(resp.kind) # "ok"
    THEN [motion |-> reset, last_record |-> lr, ret |-> "False"]
    ELSE LET st == RecordEntries([motion |-> reset, last_record |-> lr], resp.videos)
         IN  [motion |-> st.motion, last_record |-> st.last_record, ret |-> "True"]

check_new_videos(rv) ==
    LET r == CheckNewVideos(cameras, motion, last_record, rv) IN
    /\ op = Idle
    /\ motion' = r.motion
    /\ last_record' = r.last_record
    /\ op' = "check_new_videos"
    /\ ret' = r.ret
    /\ raised' = NoExc
    /\ calls' = <<Call("request_videos", "-", 0)>>
    /\ inp' = [NoInput EXCEPT !.videos = rv]
    /\ UNCHANGED <<network_id, summary, sync_id, serial, status, events,
                   homescreen, network_info, cameras, videos, all_clips,
                   record_dates>>

-----------------------------------------------------------------------------
(* start                                                                   *)

\* variant: line 107 is left out
StartCamera_NoMotionInit(st, camera_config) ==
    IF camera_config.name = Missing
    THEN [st EXCEPT !.raised = "KeyError"]
    ELSE [cameras |-> CidSet(st.cameras, camera_config.name,
                             CameraUpdate(NewCamera, camera_config, TRUE)),
          motion |-> st.motion,
          raised |-> NoExc]

\* lines 105-108: one camera_config; st = [cameras, motion, raised]
StartCamera(st, camera_config) ==
    IF camera_config.name = Missing
    THEN [st EXCEPT !.raised = "KeyError"]
    ELSE [cameras |-> CidSet(st.cameras, camera_config.name,
                             CameraUpdate(NewCamera, camera_config, TRUE)),
          motion |-> Put(st.motion, camera_config.name, FALSE),
          raised |-> NoExc]

RECURSIVE StartCameras(_, _)
\* lines 104-108: the loop stops at the first exception
StartCameras(st, configs) ==
    IF configs = <<>> \/ st.raised # NoExc THEN st
    ELSE StartCameras(StartCamera(st, Head(configs)), Tail(configs))

\* line 104: iterating a value that is no list raises TypeError
CreateCameras(st, camera_info) ==
    IF camera_info.t # "list" THEN [st EXCEPT !.raised = "TypeError"]
    ELSE StartCameras(st, camera_info.v)

\* variant: each of the three fields is extracted on its own
ExtractInfo_Independent(s, old) ==
    [sync_id |-> IF s.id = Missing THEN old.sync_id ELSE s.id,
     serial  |-> IF s.serial = Missing THEN old.serial ELSE s.serial,
     status  |-> IF s.status = Missing THEN old.status ELSE s.status]

\* lines 89-95: extraction stops at the first absent key
ExtractInfo(s, old) ==
    IF s.id = Missing THEN old
    ELSE IF s.serial = Missing THEN [old EXCEPT !.sync_id = s.id]
    ELSE IF s.status = Missing THEN [old EXCEPT !.sync_id = s.id, !.serial = s.serial]
    ELSE [sync_id |-> s.id, serial |-> s.serial, status |-> s.status]

\* variant: a failed bootstrap clears the identity of the module
StartNoSummary_Resets(rs) ==
    /\ ret' = "False"
    /\ raised' = NoExc
    /\ sync_id' = None
    /\ serial' = None
    /\ status' = None
    /\ UNCHANGED <<network_id, summary, events, homescreen, network_info, cameras,
                   motion, last_record, videos, all_clips, record_dates>>

\* lines 82, 84-87: response['syncmodule'] raised, nothing was assigned
StartNoSummary(rs) ==
    /\ ret' = "False"
    /\ raised' = NoExc
    /\ UNCHANGED prog

\* lines 82-87: summary['network_id'] raised, summary is already overwritten
StartNoNetworkId(rs) ==
    /\ summary' = SummaryDict(rs.syncmodule)
    /\ ret' = "False"
    /\ raised' = NoExc
    /\ UNCHANGED <<network_id, sync_id, serial, status, events, homescreen,
                   network_info, cameras, motion, last_record, videos,
                   all_clips, record_dates>>

\* variant: the new-video check runs after the cameras are created, in the
\* order refresh() has
StartBootstrap_CheckAfterCameras(rs, re, rh, rn, rv, rc) ==
    LET info == ExtractInfo(rs.syncmodule,
                    [sync_id |-> sync_id, serial |-> serial, status |-> status])
        st   == CreateCameras([cameras |-> cameras, motion |-> motion,
                               raised |-> NoExc], get_camera_info(rc))
        chk  == CheckNewVideos(st.cameras, st.motion, last_record, rv)
    IN  /\ summary' = SummaryDict(rs.syncmodule)
        /\ network_id' = rs.syncmodule.network_id
        /\ sync_id' = info.sync_id
        /\ serial' = info.serial
        /\ status' = info.status
        /\ events' = get_events(re)
        /\ homescreen' = rh
        /\ network_info' = rn
        /\ last_record' = chk.last_record
        /\ cameras' = st.cameras
        /\ motion' = chk.motion
        /\ raised' = st.raised
        /\ ret' = IF st.raised = NoExc THEN "True" ELSE NoReturn
        /\ UNCHANGED <<videos, all_clips, record_dates>>

\* lines 82-83, 89-110
StartBootstrap(rs, re, rh, rn, rv, rc) ==
    LET info == ExtractInfo(rs.syncmodule,
                    [sync_id |-> sync_id, serial |-> serial, status |-> status])
        chk  == CheckNewVideos(cameras, motion, last_record, rv)
        st   == CreateCameras([cameras |-> cameras, motion |-> chk.motion,
                               raised |-> NoExc], get_camera_info(rc))
    IN  /\ summary' = SummaryDict(rs.syncmodule)
        /\ network_id' = rs.syncmodule.network_id
        /\ sync_id' = info.sync_id
        /\ serial' = info.serial
        /\ status' = info.status
        /\ events' = get_events(re)
        /\ homescreen' = rh
        /\ network_info' = rn
        /\ last_record' = chk.last_record
        /\ cameras' = st.cameras
        /\ motion' = st.motion
        /\ raised' = st.raised
        /\ ret' = IF st.raised = NoExc THEN "True" ELSE NoReturn
        /\ UNCHANGED <<videos, all_clips, record_dates>>

\* variant: every request is addressed with the network id the call began with
StartCalls_OldId(rs) ==
    LET first == Call("request_syncmodule", network_id, -1)
        nid   == rs.syncmodule.network_id
    IN  IF Subscript(rs.kind) # "ok" \/ nid = Missing THEN <<first>>
        ELSE <<first,
               Call("request_sync_events", network_id, -1),
               Call("request_homescreen", "-", -1),
               Call("request_network_status", network_id, -1),
               Call("request_videos", "-", 0),
               Call("request_cameras", network_id, -1)>>

\* the requests of start(), in the order of lines 80-103
StartCalls(rs) ==
    LET first == Call("request_syncmodule", network_id, -1)
        nid   == rs.syncmodule.network_id
    IN  IF Subscript(rs.kind) # "ok" \/ nid = Missing THEN <<first>>
        ELSE <<first,
               Call("request_sync_events", nid, -1),
               Call("request_homescreen", "-", -1),
               Call("request_network_status", nid, -1),
               Call("request_videos", "-", 0),
               Call("request_cameras", nid, -1)>>

start(rs, re, rh, rn, rv, rc) ==
    /\ op = Idle
    /\ op' = "start"
    /\ calls' = StartCalls(rs)
    /\ IF Subscript(rs.kind) # "ok"
       THEN /\ StartNoSummary(rs)
            /\ inp' = [NoInput EXCEPT !.status = rs]
       ELSE IF rs.syncmodule.network_id = Missing
       THEN /\ StartNoNetworkId(rs)
            /\ inp' = [NoInput EXCEPT !.status = rs]
       ELSE /\ StartBootstrap(rs, re, rh, rn, rv, rc)
            /\ inp' = [NoInput EXCEPT !.status = rs, !.events = re, !.net = rn,
                                      !.cams = rc, !.videos = rv]

-----------------------------------------------------------------------------
(* refresh                                                                 *)

\* variant: a camera that is not known yet is created, as start() does
RefreshCamera_Creates(st, camera_config, force_cache) ==
    IF camera_config.name = Missing
    THEN [st EXCEPT !.raised = "KeyError"]
    ELSE [st EXCEPT !.cameras = CidSet(st.cameras, camera_config.name,
                                       CameraUpdate(NewCamera, camera_config, force_cache))]

\* lines 139-140: one camera_config; st = [cameras, raised].  Both
\* camera_config['name'] and self.cameras[name] raise KeyError on a miss.
RefreshCamera(st, camera_config, force_cache) ==
    IF camera_config.name = Missing
    THEN [st EXCEPT !.raised = "KeyError"]
    ELSE IF ~CidHas(st.cameras, camera_config.name)
    THEN [st EXCEPT !.raised = "KeyError"]
    ELSE LET k == lower(camera_config.name) IN
         [st EXCEPT !.cameras[k].value =
                        CameraUpdate(CidGet(st.cameras, camera_config.name),
                                     camera_config, force_cache)]

RECURSIVE RefreshCameras(_, _, _)
\* lines 138-140: the loop stops at the first exception
RefreshCameras(st, configs, force_cache) ==
    IF configs = <<>> \/ st.raised # NoExc THEN st
    ELSE RefreshCameras(RefreshCamera(st, Head(configs), force_cache),
                        Tail(configs), force_cache)

\* line 138: iterating a value that is no list raises TypeError
UpdateCameras(st, camera_info, force_cache) ==
    IF camera_info.t # "list" THEN [st EXCEPT !.raised = "TypeError"]
    ELSE RefreshCameras(st, camera_info.v, force_cache)

\* variant: the listing is fetched before the camera info, as in start()
RefreshCalls_VideosFirst(nid) ==
    <<Call("request_sync_events", nid, -1),
      Call("request_homescreen", "-", -1),
      Call("request_network_status", nid, -1),
      Call("request_videos", "-", 0),
      Call("request_cameras", nid, -1)>>

\* the requests of refresh(), in the order of lines 132-137
RefreshCalls(nid) ==
    <<Call("request_sync_events", nid, -1),
      Call("request_homescreen", "-", -1),
      Call("request_network_status", nid, -1),
      Call("request_cameras", nid, -1),
      Call("request_videos", "-", 0)>>

refresh(force_cache, re, rh, rn, rc, rv) ==
    LET chk == CheckNewVideos(cameras, motion, last_record, rv)
        st  == UpdateCameras([cameras |-> cameras, raised |-> NoExc],
                             get_camera_info(rc), force_cache)
    IN  /\ op = Idle
        /\ op' = "refresh"
        /\ events' = get_events(re)
        /\ homescreen' = rh
        /\ network_info' = rn
        /\ motion' = chk.motion
        /\ last_record' = chk.last_record
        /\ cameras' = st.cameras
        /\ raised' = st.raised
        /\ ret' = IF st.raised = NoExc THEN None ELSE NoReturn
        /\ calls' = RefreshCalls(network_id)
        /\ inp' = [NoInput EXCEPT !.events = re, !.net = rn, !.cams = rc,
                                  !.videos = rv, !.force_cache = force_cache]
        /\ UNCHANGED <<network_id, summary, sync_id, serial, status, videos,
                       all_clips, record_dates>>

-----------------------------------------------------------------------------
(* online / arm                                                            *)

\* blinkpy.helpers.constants.ONLINE: the status strings and their booleans
ONLINE == [s \in {"online", "offline"} |-> IF s = "online" THEN "True" ELSE "False"]

\* variant: a status outside the table reads as offline
online_Default ==
    /\ op = Idle
    /\ op' = "online"
    /\ raised' = NoExc
    /\ ret' = IF status \in DOMAIN ONLINE THEN ONLINE[status] ELSE "False"
    /\ calls' = <<>>
    /\ inp' = NoInput
    /\ UNCHANGED prog

\* lines 60-63: ONLINE[self.status]; a status that is no key raises KeyError
online ==
    /\ op = Idle
    /\ op' = "online"
    /\ raised' = IF status \in DOMAIN ONLINE THEN NoExc ELSE "KeyError"
    /\ ret' = IF status \in DOMAIN ONLINE THEN ONLINE[status] ELSE NoReturn
    /\ calls' = <<>>
    /\ inp' = NoInput
    /\ UNCHANGED prog

\* lines 65-68: self.network_info['network']['armed']; None[...] raises TypeError
arm ==
    /\ op = Idle
    /\ op' = "arm"
    /\ raised' = IF network_info.kind = "None" THEN "TypeError" ELSE NoExc
    /\ ret' = IF network_info.kind = "None" THEN NoReturn
              ELSE IF network_info.armed THEN "True" ELSE "False"
    /\ calls' = <<>>
    /\ inp' = NoInput
    /\ UNCHANGED prog

\* variant: the setter also writes the flag into network_info
arm_setter_Local(value) ==
    /\ op = Idle
    /\ op' = "arm.setter"
    /\ raised' = NoExc
    /\ ret' = None
    /\ calls' = <<Call(IF value THEN "request_system_arm" ELSE "request_system_disarm",
                       network_id, -1)>>
    /\ inp' = [NoInput EXCEPT !.value = value]
    /\ network_info' = NetOk(value)
    /\ UNCHANGED <<network_id, summary, sync_id, serial, status, events, homescreen,
                   cameras, motion, last_record, videos, all_clips, record_dates>>

\* lines 70-76: one remote command, chosen by the truth of value; the value a
\* property setter returns is dropped by the assignment
arm_setter(value) ==
    /\ op = Idle
    /\ op' = "arm.setter"
    /\ raised' = NoExc
    /\ ret' = None
    /\ calls' = <<Call(IF value THEN "request_system_arm" ELSE "request_system_disarm",
                       network_id, -1)>>
    /\ inp' = [NoInput EXCEPT !.value = value]
    /\ UNCHANGED prog

-----------------------------------------------------------------------------
(* get_videos                                                              *)

\* line 173: 'message' in this_page.  On a mapping it asks for the key; on a
\* list it asks whether an element equals the string.
HasMessage(this_page) ==
    \/ this_page.kind = "message"
    \/ /\ this_page.kind = "list"
       /\ \E k \in 1..Len(this_page.entries) : this_page.entries[k].is_message

\* lines 169-178: pages are fetched in order from page_num on; a falsy page
\* or one with a 'message' ends the loop, and on a list line 175,
\* this_page['message'], raises TypeError.  pages[n + 1] is the response for
\* page n.  The value is [fetched, calls, raised].
RECURSIVE FetchPages(_, _, _, _)
FetchPages(page_num, end_page, pages, acc) ==
    IF page_num > end_page
    THEN [fetched |-> acc.fetched, calls |-> acc.calls, raised |-> NoExc]
    ELSE LET this_page == pages[page_num + 1]
             asked == Append(acc.calls, Call("request_videos", "-", page_num))
             stop(exc) == [fetched |-> acc.fetched, calls |-> asked, raised |-> exc]
         IN  IF this_page.kind = "None" \/ (this_page.kind = "list" /\ this_page.entries = <<>>)
             THEN stop(NoExc)
             ELSE IF HasMessage(this_page)
             THEN stop(IF this_page.kind = "list" THEN "TypeError" ELSE NoExc)
             ELSE FetchPages(page_num + 1, end_page, pages,
                             [fetched |-> Append(acc.fetched, this_page.entries),
                              calls |-> asked])

\* x in a Python list
InList(x, l) == \E i \in 1..Len(l) : l[i] = x
\* d[k] for a key that may be absent
GetOr(d, k, default) == IF k \in DOMAIN d THEN d[k] ELSE default

\* lines 184-216: one entry; st = [all_clips, videos, all_dates, raised, brk]
MergeEntry(st, entry) ==
    IF ~entry.rec
    THEN \* lines 188-190: TypeError is caught and ends this page
         [st EXCEPT !.brk = TRUE]
    ELSE IF \/ entry.camera_name = Missing
            \/ entry.address = Missing
            \/ entry.thumbnail = Missing
            \/ entry.created_at = Missing
    THEN \* lines 185-187, 192: KeyError is not caught
         [st EXCEPT !.raised = "KeyError"]
    ELSE IF ~st.all_clips.set
    THEN \* line 195: no attribute all_clips
         [st EXCEPT !.raised = "AttributeError"]
    ELSE LET c     == entry.camera_name
             d     == entry.created_at
             clips == AttrDict(Put(st.all_clips.v, c,
                                   Put(GetOr(st.all_clips.v, c, EmptyDict), d, entry.address)))
             seen  == InList(d, GetOr(st.all_dates, c, <<>>))
             dates == Put(st.all_dates, c, Append(GetOr(st.all_dates, c, <<>>), d))
             pair  == [clip |-> entry.address, thumb |-> entry.thumbnail]
         IN  IF seen
             THEN [st EXCEPT !.all_clips = clips]
             ELSE IF ~st.videos.set
             THEN \* line 204: no attribute videos
                  [st EXCEPT !.all_clips = clips, !.all_dates = dates,
                             !.raised = "AttributeError"]
             ELSE [st EXCEPT !.all_clips = clips, !.all_dates = dates,
                             !.videos = AttrDict(Put(st.videos.v, c,
                                            Append(GetOr(st.videos.v, c, <<>>), pair)))]

RECURSIVE MergePage(_, _)
\* lines 183-216: the entries of one page, up to a break or an exception
MergePage(st, page) ==
    IF page = <<>> \/ st.brk \/ st.raised # NoExc THEN st
    ELSE MergePage(MergeEntry(st, Head(page)), Tail(page))

RECURSIVE MergePages(_, _)
\* lines 182-216: the fetched pages in order
MergePages(st, fetched) ==
    IF fetched = <<>> \/ st.raised # NoExc THEN st
    ELSE MergePages([MergePage(st, Head(fetched)) EXCEPT !.brk = FALSE], Tail(fetched))

get_videos(start_page, end_page, pages) ==
    LET f   == FetchPages(start_page, end_page, pages, [fetched |-> <<>>, calls |-> <<>>])
        \* an exception of the fetch loop leaves the call before line 182
        st  == MergePages([all_clips |-> all_clips, videos |-> videos,
                           all_dates |-> EmptyDict, raised |-> f.raised, brk |-> FALSE],
                          f.fetched)
        \* line 219: return self.videos raises when there is no such attribute
        exc == IF st.raised # NoExc THEN st.raised
               ELSE IF ~st.videos.set THEN "AttributeError" ELSE NoExc
    IN  /\ op = Idle
        /\ op' = "get_videos"
        /\ all_clips' = st.all_clips
        /\ videos' = st.videos
        /\ record_dates' = IF st.raised = NoExc THEN AttrDict(st.all_dates)
                           ELSE record_dates
        /\ raised' = exc
        /\ ret' = IF exc = NoExc THEN "self.videos" ELSE NoReturn
        /\ calls' = f.calls
        /\ inp' = [NoInput EXCEPT !.start_page = start_page, !.end_page = end_page,
                                  !.pages = pages]
        /\ UNCHANGED <<network_id, summary, sync_id, serial, status, events,
                       homescreen, network_info, cameras, motion, last_record>>

-----------------------------------------------------------------------------
(* The caller.  Calls are sequential (one thread, blocking): the next call *)
(* is issued once the caller has taken the result of the last one.         *)

Return ==
    /\ op # Idle
    /\ op' = Idle
    /\ ret' = None
    /\ raised' = NoExc
    /\ calls' = <<>>
    /\ inp' = NoInput
    /\ UNCHANGED prog

-----------------------------------------------------------------------------
(* Inputs.                                                                 *)

RECURSIVE SeqsUpTo(_, _)
\* the sequences over S of length at most n
SeqsUpTo(S, n) ==
    IF n = 0 THEN {<<>>}
    ELSE LET shorter == SeqsUpTo(S, n - 1) IN
         shorter \cup {Append(s, x) : s \in {t \in shorter : Len(t) = n - 1}, x \in S}

SummaryA == [network_id |-> "n2", id |-> "id1", serial |-> "sn1", status |-> "online"]
SummaryB == [network_id |-> "n1", id |-> "id2", serial |-> "sn2", status |-> "offline"]
GoodEvents == EventsOk(<<"e1">>)

\* camera-info entries: a config with or without its 'name'
CameraConfigs == [name : Names \cup {Missing}]
CameraInfos == {CamsNone, CamsNoKey} \cup {CamsOk(l) : l \in SeqsUpTo(CameraConfigs, MaxCams)}

\* video-listing entries: records, each of the three fields possibly absent
Entry(n, a, t) == [camera_name |-> n, address |-> a, created_at |-> t]
VideoEntries ==
    {Entry("Cam1", "/a1", "t1"), Entry("Cam1", "/a2", "t2"),
     Entry("cam1", "/a1", "t1"), Entry("Cam2", "/a1", "t1"),
     Entry(Missing, "/a2", "t2"), Entry("Cam1", Missing, "t2"),
     Entry("Cam2", "/a2", Missing)}
Listings == {VideosNone, VideosNoKey}
              \cup {VideosOk(l) : l \in SeqsUpTo(VideoEntries, MaxEntries)}
\* the listings served inside start() and refresh() where the listing is not
\* what is being varied
BootListings == {VideosNone, VideosOk(<<>>), VideosOk(<<Entry("Cam1", "/a1", "t1")>>),
                 VideosOk(<<Entry("cam1", "/a1", "t1")>>)}

-----------------------------------------------------------------------------
(* Spec: camera discovery.  The camera-info list is varied, the listing is *)
(* one of a few, the other responses are well-formed.                      *)

Next ==
    \/ \E rc \in CameraInfos, rv \in BootListings :
          start(StatusOk(SummaryA), GoodEvents, "hs", NetOk(TRUE), rv, rc)
    \/ \E rc \in CameraInfos, rv \in BootListings, force_cache \in BOOLEAN :
          refresh(force_cache, GoodEvents, "hs", NetOk(TRUE), rc, rv)
    \/ \E rv \in Listings : check_new_videos(rv)
    \/ Return

Spec == Init /\ [][Next]_vars

-----------------------------------------------------------------------------
(* SpecVideos: the video index.  Only get_videos is called.                *)

Clips == {Clip("Cam1", "/a1", "/th1", "t1"), Clip("Cam1", "/a2", "/th2", "t1"),
          Clip("Cam1", "/a2", "/th2", "t2"),
          Clip("Cam1", "/a1", "/th1", Missing), NoRecord, MessageString}
\* the first page asked for: any page of at most two of these clips
ClipLists == {<<>>} \cup {<<c>> : c \in Clips} \cup {<<c, d>> : c \in Clips, d \in Clips}
FirstPages == {PageNone, PageMessage} \cup {PageList(l) : l \in ClipLists}
LaterPages == {PageMessage, PageList(<<Clip("Cam2", "/a1", "/th1", "t1")>>)}
PageSeqs == {<<p>> \o rest : p \in FirstPages, rest \in [1..MaxPage -> LaterPages]}

NextVideos ==
    \/ \E start_page \in 0..MaxPage, end_page \in 0..MaxPage, pages \in PageSeqs :
          get_videos(start_page, end_page, pages)
    \/ Return

SpecVideos == Init /\ [][NextVideos]_vars

-----------------------------------------------------------------------------
(* SpecBoot: bootstrap and fetch failures.  The status response and the    *)
(* failure of each fetch are varied; there is at most one camera.          *)

SummaryKeys == {"network_id", "id", "serial", "status"}
\* a full summary, or one that lacks one key
Summaries == {SummaryA, SummaryB}
               \cup {[s EXCEPT ![k] = Missing] : s \in {SummaryA, SummaryB}, k \in SummaryKeys}
StatusResponses == {StatusNone, StatusNoKey} \cup {StatusOk(s) : s \in Summaries}
EventsResponses == {EventsNone, EventsNoKey, GoodEvents}
FetchCameraInfos == {CamsNone, CamsNoKey, CamsOk(<<[name |-> "Cam1"]>>)}
FetchListings == {VideosNone, VideosNoKey, VideosOk(<<Entry("Cam1", "/a1", "t1")>>)}

NextBoot ==
    \/ \E rs \in StatusResponses, re \in EventsResponses, rv \in FetchListings,
          rc \in FetchCameraInfos :
          start(rs, re, "hs", NetOk(TRUE), rv, rc)
    \/ \E re \in EventsResponses, rv \in FetchListings, rc \in FetchCameraInfos,
          force_cache \in BOOLEAN :
          refresh(force_cache, re, "hs", NetOk(TRUE), rc, rv)
    \/ Return

SpecBoot == Init /\ [][NextBoot]_vars

-----------------------------------------------------------------------------
(* SpecAccess: every operation of the instance, on a few responses each:   *)
(* the accessors online and arm next to the calls that change what they    *)
(* read.                                                                   *)

AccessStatuses == {StatusNoKey, StatusOk(SummaryA), StatusOk(SummaryB),
                   StatusOk([SummaryB EXCEPT !.status = Missing]),
                   StatusOk([SummaryA EXCEPT !.status = "unknown"])}
AccessNets == {NetNone, NetOk(TRUE), NetOk(FALSE)}
AccessCams == {CamsNone, CamsOk(<<[name |-> "Cam1"]>>),
               CamsOk(<<[name |-> "cam1"], [name |-> "Cam2"]>>),
               CamsOk(<<[name |-> Missing]>>)}
AccessListings == {VideosNone, VideosOk(<<Entry("Cam1", "/a1", "t1")>>)}
AccessPages == {<<p>> \o [i \in 1..MaxPage |-> PageMessage] :
                   p \in {PageNone, PageList(<<Clip("Cam1", "/a1", "/th1", "t1")>>)}}

NextAccess ==
    \/ \E rs \in AccessStatuses, rn \in AccessNets, rc \in AccessCams,
          rv \in AccessListings :
          start(rs, GoodEvents, "hs", rn, rv, rc)
    \/ \E rn \in AccessNets, rc \in AccessCams, rv \in AccessListings :
          refresh(FALSE, GoodEvents, "hs", rn, rc, rv)
    \/ \E rv \in AccessListings : check_new_videos(rv)
    \/ \E pages \in AccessPages : get_videos(0, 0, pages)
    \/ online
    \/ arm
    \/ \E value \in BOOLEAN : arm_setter(value)
    \/ Return

SpecAccess == Init /\ [][NextAccess]_vars

-----------------------------------------------------------------------------
(* Properties.                                                             *)

\* the camera-info list and the video listing served to the last call
ServedCams == inp.cams.devicestatus
ServedListing == inp.videos.videos
FetchFailed(r) == Subscript(r.kind) # "ok"
AllNamed(l) == \A i \in 1..Len(l) : l[i].name # Missing
Complete(e) == e.camera_name # Missing /\ e.address # Missing /\ e.created_at # Missing
\* the listing holds a complete entry for the name
Qualifying(l, n) == \E i \in 1..Len(l) : Complete(l[i]) /\ l[i].camera_name = n
\* the place of the last complete entry for the name, 0 when there is none
LastFor(l, n) ==
    LET S == {i \in 1..Len(l) : Complete(l[i]) /\ l[i].camera_name = n}
    IN  IF S = {} THEN 0 ELSE CHOOSE i \in S : \A j \in S : j <= i

\* C1: for every module-status response without the 'syncmodule' key (a
\* missing response included), start() returns False and sync_id, serial and
\* status keep the values they had before the call.
C1_StartWithoutSyncmoduleFails ==
    [][(op' = "start" /\ FetchFailed(inp'.status))
          => /\ ret' = "False"
             /\ raised' = NoExc
             /\ sync_id' = sync_id
             /\ serial' = serial
             /\ status' = status]_vars

\* a failed start() on an instance that an earlier start() had populated
C1_Witness ==
    /\ op = "start"
    /\ FetchFailed(inp.status)
    /\ ret = "False"
    /\ sync_id # None
    /\ serial # None
    /\ status # None

\* start() on a fresh instance, with a well-formed status response and a
\* camera-info list in which every entry has a name
FreshGoodStart ==
    /\ Constructed
    /\ op' = "start"
    /\ inp'.status.kind = "ok"
    /\ \A k \in {"network_id", "id", "serial", "status"} : inp'.status.syncmodule[k] # Missing
    /\ inp'.cams.kind = "ok"
    /\ AllNamed(inp'.cams.devicestatus)

\* after the step: one cameras entry per list entry, each name with a False flag
OneCameraPerEntry ==
    LET l == inp'.cams.devicestatus IN
    /\ ret' = "True"
    /\ Cardinality(DOMAIN cameras') = Len(l)
    /\ \A i \in 1..Len(l) : l[i].name \in DOMAIN motion' /\ motion'[l[i].name] = FALSE

\* C2 as claimed: after start() on a fresh instance with a well-formed status
\* response and a well-formed camera-info list of N pairwise distinct names,
\* cameras has exactly N entries and motion[name] is False for each name,
\* whatever the video listing held.
C2_Original ==
    [][(/\ FreshGoodStart
        /\ \A i, j \in 1..Len(inp'.cams.devicestatus) :
              i # j => inp'.cams.devicestatus[i].name # inp'.cams.devicestatus[j].name)
          => OneCameraPerEntry]_vars

\* C2 as amended: the same for N names that are pairwise distinct when case
\* is ignored (cameras is keyed by the lower-cased name).
C2_Amended ==
    [][(/\ FreshGoodStart
        /\ \A i, j \in 1..Len(inp'.cams.devicestatus) :
              i # j => lower(inp'.cams.devicestatus[i].name)
                         # lower(inp'.cams.devicestatus[j].name))
          => OneCameraPerEntry]_vars

\* a first start() that created two cameras while its own listing reported a
\* clip for one of them
C2_Witness ==
    /\ op = "start"
    /\ ret = "True"
    /\ Len(ServedCams) = 2
    /\ lower(ServedCams[1].name) # lower(ServedCams[2].name)
    /\ Cardinality(DOMAIN cameras) = 2
    /\ inp.videos.kind = "ok"
    /\ Qualifying(ServedListing, ServedCams[1].name)
    /\ DOMAIN last_record = {ServedCams[1].name}
    /\ DOMAIN motion = {ServedCams[1].name, ServedCams[2].name}
    /\ motion[ServedCams[1].name] = FALSE

\* C3: check_new_videos() on a listing response without the 'videos' key (or
\* one that is no mapping) returns False and leaves motion[name] False for
\* every key of cameras, whatever motion held before.
C3_FailedCheckClearsMotion ==
    (op = "check_new_videos" /\ FetchFailed(inp.videos))
       => /\ ret = "False"
          /\ raised = NoExc
          /\ \A n \in CidKeys(cameras) : n \in DOMAIN motion /\ motion[n] = FALSE

\* a failed check on an instance with a camera for which motion had been recorded
C3_Witness ==
    /\ op = "check_new_videos"
    /\ FetchFailed(inp.videos)
    /\ ret = "False"
    /\ \E n \in CidKeys(cameras) : n \in DOMAIN last_record /\ n \in DOMAIN motion

\* C4: check_new_videos() on a listing of records returns True; for every
\* name the last complete entry (camera_name, address, created_at) sets
\* motion[name] and last_record[name] = {clip, time}; a name with no complete
\* entry keeps its last_record and gets no True flag from an incomplete
\* entry, and incomplete entries do not stop the ones after them.
C4_CompleteEntriesRecorded ==
    [][(op' = "check_new_videos" /\ ~FetchFailed(inp'.videos))
          => LET l == inp'.videos.videos IN
             /\ ret' = "True"
             /\ raised' = NoExc
             /\ \A n \in Names :
                   LET k == LastFor(l, n) IN
                   IF k # 0
                   THEN /\ n \in DOMAIN motion'
                        /\ motion'[n] = TRUE
                        /\ n \in DOMAIN last_record'
                        /\ last_record'[n] = [clip |-> l[k].address, time |-> l[k].created_at]
                   ELSE /\ (n \in DOMAIN last_record') = (n \in DOMAIN last_record)
                        /\ n \in DOMAIN last_record => last_record'[n] = last_record[n]
                        /\ (n \in DOMAIN motion') = (n \in DOMAIN motion \/ n \in CidKeys(cameras))
                        /\ n \in DOMAIN motion' =>
                              motion'[n] = (n \notin CidKeys(cameras) /\ motion[n])]_vars

\* a check whose listing has an incomplete entry for one camera followed by a
\* complete entry for another
C4_Witness ==
    /\ op = "check_new_videos"
    /\ ret = "True"
    /\ Len(ServedListing) = 2
    /\ ~Complete(ServedListing[1])
    /\ ServedListing[1].camera_name \in CidKeys(cameras)
    /\ Complete(ServedListing[2])
    /\ ServedListing[2].camera_name # ServedListing[1].camera_name
    /\ motion[ServedListing[1].camera_name] = FALSE
    /\ motion[ServedListing[2].camera_name] = TRUE
    /\ last_record[ServedListing[2].camera_name].clip = ServedListing[2].address

\* C5: motion is recomputed in full by every check: after any
\* check_new_videos(), whatever calls came before, no entry of motion is True
\* unless the listing of that very call held a qualifying clip for the name.
C5_MotionFullyRecomputed ==
    op = "check_new_videos"
       => \A n \in DOMAIN motion :
             motion[n] => (~FetchFailed(inp.videos) /\ Qualifying(ServedListing, n))

\* the camera that holds the entry's name was updated by the last call
UpdatedBy(config, force_cache) ==
    /\ CidHas(cameras, config.name)
    /\ lower(CidGet(cameras, config.name).config.name) = lower(config.name)
    /\ CidGet(cameras, config.name).force_cache = force_cache

\* C6: refresh() skips a camera-info entry whose name matches no camera in
\* cameras: it does not raise, creates no camera for the entry and still
\* updates every known camera that has an entry in the list.
C6_RefreshSkipsUnknownCamera ==
    (/\ op = "refresh"
     /\ inp.cams.kind = "ok"
     /\ AllNamed(ServedCams)
     /\ \E i \in 1..Len(ServedCams) : ~CidHas(cameras, ServedCams[i].name))
       => /\ raised = NoExc
          /\ \A i \in 1..Len(ServedCams) :
                CidHas(cameras, ServedCams[i].name)
                   => UpdatedBy(ServedCams[i], inp.force_cache)

\* the requests a call issued, by name
CallNames == [i \in 1..Len(calls) |-> calls[i].fn]

\* the camera-info list served to the last call has an entry that the loop
\* over it cannot look up: one without a name, or (refresh) one whose name
\* is no key of cameras
LoopLookupFails ==
    /\ inp.cams.kind = "ok"
    /\ \E i \in 1..Len(ServedCams) :
          \/ ServedCams[i].name = Missing
          \/ op = "refresh" /\ ~CidHas(cameras, ServedCams[i].name)

\* C7: a failed events, camera-info or video-listing fetch, in any
\* combination, stops neither refresh() nor a start() whose status response
\* is well-formed: every request is still issued, every attribute fetched
\* after the failure is still assigned, a failed fetch makes no exception
\* escape, and start() returns True.
C7_FetchFailuresTolerated ==
    /\ op = "refresh"
          => /\ CallNames = <<"request_sync_events", "request_homescreen",
                              "request_network_status", "request_cameras",
                              "request_videos">>
             /\ events = (IF FetchFailed(inp.events) THEN PyFalse ELSE PyList(inp.events.event))
             /\ homescreen = "hs"
             /\ network_info = inp.net
             /\ FetchFailed(inp.videos) => \A n \in CidKeys(cameras) : motion[n] = FALSE
             /\ raised # NoExc => LoopLookupFails
             /\ raised = NoExc => ret = None
    /\ (op = "start" /\ ~FetchFailed(inp.status)
                     /\ inp.status.syncmodule.network_id # Missing)
          => /\ CallNames = <<"request_syncmodule", "request_sync_events",
                              "request_homescreen", "request_network_status",
                              "request_videos", "request_cameras">>
             /\ events = (IF FetchFailed(inp.events) THEN PyFalse ELSE PyList(inp.events.event))
             /\ homescreen = "hs"
             /\ network_info = inp.net
             /\ raised # NoExc => LoopLookupFails
             /\ raised = NoExc => ret = "True"

\* a start() in which the three fetches all failed
C7_Witness ==
    /\ op = "start"
    /\ ret = "True"
    /\ FetchFailed(inp.events)
    /\ FetchFailed(inp.cams)
    /\ FetchFailed(inp.videos)
    /\ events = PyFalse

\* C8: a camera-info entry without a 'name' is skipped: start() and
\* refresh() do not raise on it, and every well-formed entry of the list is
\* still created (start) or updated (refresh).
C8_MalformedConfigSkipped ==
    (/\ op \in {"start", "refresh"}
     /\ inp.cams.kind = "ok"
     /\ \E i \in 1..Len(ServedCams) : ServedCams[i].name = Missing
     /\ op = "refresh" =>
           \A i \in 1..Len(ServedCams) :
              ServedCams[i].name # Missing => CidHas(cameras, ServedCams[i].name))
       => /\ raised = NoExc
          /\ \A i \in 1..Len(ServedCams) :
                ServedCams[i].name # Missing
                   => UpdatedBy(ServedCams[i], IF op = "start" THEN TRUE ELSE inp.force_cache)

\* nothing has been accumulated by get_videos yet
NoVideosYet ==
    /\ ~record_dates.set
    /\ videos.v = EmptyDict
    /\ all_clips.v = EmptyDict

\* C9: the first get_videos(0, 0), on one page holding one clip of "Cam1" at
\* "t1", returns the videos mapping, in which videos["Cam1"] has the one
\* {clip, thumb} pair, and all_clips["Cam1"]["t1"] is the clip address.
C9_FirstGetVideos ==
    [][(/\ NoVideosYet
        /\ op' = "get_videos"
        /\ inp'.start_page = 0
        /\ inp'.end_page = 0
        /\ inp'.pages[1] = PageList(<<Clip("Cam1", "/a1", "/th1", "t1")>>))
          => /\ raised' = NoExc
             /\ ret' = "self.videos"
             /\ videos'.set
             /\ "Cam1" \in DOMAIN videos'.v
             /\ videos'.v["Cam1"] = <<[clip |-> "/a1", thumb |-> "/th1"]>>
             /\ all_clips'.set
             /\ "Cam1" \in DOMAIN all_clips'.v
             /\ "t1" \in DOMAIN all_clips'.v["Cam1"]
             /\ all_clips'.v["Cam1"]["t1"] = "/a1"]_vars

\* the pages a get_videos call merges: those fetched before the first falsy
\* page or 'message'
MergedPages(i) ==
    {p \in i.start_page..i.end_page :
        \A q \in i.start_page..p :
            i.pages[q + 1].kind = "list" /\ i.pages[q + 1].entries # <<>>}
\* the clips of a camera that are merged from one page: those before the
\* first entry that is no record
PageClips(l, c) ==
    {l[k] : k \in {m \in 1..Len(l) : (\A j \in 1..m : l[j].rec) /\ l[m].camera_name = c}}
\* the timestamps a call merges for a camera
CallTimestamps(i, c) ==
    {e.created_at : e \in UNION {PageClips(i.pages[p + 1].entries, c) : p \in MergedPages(i)}}
VideoCameras == {"Cam1", "Cam2"}

\* the page of the range at which get_videos stops asking: the first that is
\* falsy or has a 'message', else the last of the range
Stops(pg) == pg.kind # "list" \/ pg.entries = <<>>
LastAsked(i) ==
    LET S == {p \in i.start_page..i.end_page : Stops(i.pages[p + 1])}
    IN  IF S = {} THEN i.end_page ELSE CHOOSE p \in S : \A q \in S : p <= q
\* every entry of the pages served in the range is a record with its four keys
WellFormedPages(i) ==
    \A p \in i.start_page..i.end_page :
       \A k \in 1..Len(i.pages[p + 1].entries) :
          LET e == i.pages[p + 1].entries[k] IN
          /\ e.rec
          /\ e.camera_name # Missing
          /\ e.address # Missing
          /\ e.thumbnail # Missing
          /\ e.created_at # Missing

C11_PagesInOrderAndMerged ==
    [][(op' = "get_videos" /\ WellFormedPages(inp'))
          => LET i == inp'
                 n == LastAsked(i) - i.start_page + 1
             IN  /\ calls' = [k \in 1..n |-> Call("request_videos", "-", i.start_page + k - 1)]
                 /\ raised' = NoExc
                 /\ ret' = "self.videos"
                 /\ \A p \in MergedPages(i) :
                       \A k \in 1..Len(i.pages[p + 1].entries) :
                          LET e == i.pages[p + 1].entries[k] IN
                          /\ e.camera_name \in DOMAIN all_clips'.v
                          /\ e.created_at \in DOMAIN all_clips'.v[e.camera_name]
                          /\ e.camera_name \in DOMAIN videos'.v]_vars

\* C12: online is a pure lookup on status: True for the online string, False
\* for the offline string, a lookup error for any other value, the None that
\* status holds before start() and after a start() without 'status' included;
\* the read changes nothing and issues no request.
C12_OnlineIsLookupOfStatus ==
    [][op' = "online"
          => /\ prog' = prog
             /\ calls' = <<>>
             /\ status = "online" => (ret' = "True" /\ raised' = NoExc)
             /\ status = "offline" => (ret' = "False" /\ raised' = NoExc)
             /\ status \notin {"online", "offline"}
                   => (raised' = "KeyError" /\ ret' = NoReturn)]_vars

\* online raised on the None that status still holds after a start() whose
\* response had no 'status'
C12_Witness ==
    /\ op = "online"
    /\ raised = "KeyError"
    /\ status = None
    /\ summary.t = "dict"
    /\ summary.v.status = Missing

\* C13: assigning to arm issues exactly one remote command, arm for a truthy
\* value and disarm otherwise, and changes no attribute; arm reads the flag
\* of the network_info fetched last, and network_info changes only in
\* start() and refresh().
C13_ArmSetterOnlyCommands ==
    [][/\ op' = "arm.setter"
          => /\ calls' = <<Call(IF inp'.value THEN "request_system_arm"
                                              ELSE "request_system_disarm",
                                network_id, -1)>>
             /\ raised' = NoExc
             /\ prog' = prog
       /\ (op' = "arm" /\ network_info.kind = "ok")
          => /\ raised' = NoExc
             /\ ret' = (IF network_info.armed THEN "True" ELSE "False")
             /\ prog' = prog
       /\ network_info' # network_info => op' \in {"start", "refresh"}]_vars

\* an arm command on an instance whose fetched network_info says disarmed
C13_Witness ==
    /\ op = "arm.setter"
    /\ inp.value
    /\ Len(calls) = 1
    /\ calls[1].fn = "request_system_arm"
    /\ network_info = NetOk(FALSE)

\* the status response served to the call has 'syncmodule' and 'network_id'
BootstrapRuns(i) == ~FetchFailed(i.status) /\ i.status.syncmodule.network_id # Missing

\* C14: a start() whose status response carries a network_id overwrites
\* network_id with it before any other fetch: the status request goes out
\* under the old id, the events, network-status and camera-info requests of
\* that start() under the response's id, and so do those of every later
\* refresh(), since nothing but start() assigns network_id.
C14_ResponseNetworkIdAddressesFetches ==
    [][/\ (op' = "start" /\ BootstrapRuns(inp'))
          => LET nid == inp'.status.syncmodule.network_id IN
             /\ network_id' = nid
             /\ Len(calls') = 6
             /\ calls'[1] = Call("request_syncmodule", network_id, -1)
             /\ calls'[2] = Call("request_sync_events", nid, -1)
             /\ calls'[4] = Call("request_network_status", nid, -1)
             /\ calls'[6] = Call("request_cameras", nid, -1)
       /\ op' = "refresh"
          => /\ network_id' = network_id
             /\ \A k \in 1..Len(calls') :
                   calls'[k].fn \in {"request_sync_events", "request_network_status",
                                     "request_cameras"}
                      => calls'[k].nid = network_id
             /\ \E k \in 1..Len(calls') : calls'[k].fn = "request_cameras"
       /\ network_id' # network_id
          => (op' = "start" /\ BootstrapRuns(inp'))]_vars

\* a start() that was constructed with one network id and served another
C14_Witness ==
    /\ op = "start"
    /\ ret = "True"
    /\ network_id = "n2"
    /\ calls[1].nid = "n1"
    /\ calls[2].nid = "n2"
    /\ calls[6].nid = "n2"

\* C15 as claimed: refresh() fetches events, homescreen and network info,
\* runs the new-video detection (the listing fetch), fetches the camera info
\* and then updates the cameras: the listing fetch comes before the
\* camera-info fetch.
C15_Original ==
    op = "refresh"
       => CallNames = <<"request_sync_events", "request_homescreen",
                        "request_network_status", "request_videos",
                        "request_cameras">>

\* C15 as amended: refresh() fetches events, homescreen, network info and
\* the camera info, then runs the new-video detection (the listing fetch)
\* and then updates the cameras: the camera-info fetch comes before the
\* listing fetch.
C15_Amended ==
    op = "refresh"
       => CallNames = <<"request_sync_events", "request_homescreen",
                        "request_network_status", "request_cameras",
                        "request_videos">>

\* a refresh() that went through all its steps: it found a clip and updated
\* the camera
C15_Witness ==
    /\ op = "refresh"
    /\ raised = NoExc
    /\ Len(ServedCams) = 1
    /\ UpdatedBy(ServedCams[1], inp.force_cache)
    /\ inp.videos.kind = "ok"
    /\ Qualifying(ServedListing, ServedCams[1].name)
    /\ motion[ServedCams[1].name] = TRUE

\* C16: every start() that gets past the status response and every refresh()
\* replaces events by what get_events() returned in that call: the 'event'
\* list of the response, or the sentinel False (no list) when the response is
\* missing or malformed, whatever events held before; nothing else assigns
\* events.
C16_EventsReplacedWholesale ==
    [][/\ (op' = "refresh" \/ (op' = "start" /\ BootstrapRuns(inp')))
          => events' = (IF FetchFailed(inp'.events) THEN PyFalse
                        ELSE PyList(inp'.events.event))
       /\ events' # events
          => (op' = "refresh" \/ (op' = "start" /\ BootstrapRuns(inp')))]_vars

\* a refresh() whose events fetch failed, on an instance that a start() had
\* populated: events is False, not a list
C16_Witness ==
    /\ op = "refresh"
    /\ FetchFailed(inp.events)
    /\ events = PyFalse
    /\ events.t # "list"
    /\ summary.t = "dict"
    /\ sync_id # None

\* C17: over any sequence of start(), refresh(), check_new_videos(),
\* get_videos() and arm assignments, no name that is in cameras ever leaves
\* it, and only start() changes the keys of cameras: no other call adds or
\* removes an entry, whatever it was served.
C17_OnlyStartChangesCameraKeys ==
    [][/\ DOMAIN cameras \subseteq DOMAIN cameras'
       /\ \A n \in Names : CidHas(cameras, n) => CidHas(cameras', n)
       /\ Cardinality(CidKeys(cameras')) >= Cardinality(CidKeys(cameras))
       /\ (DOMAIN cameras' # DOMAIN cameras \/ CidKeys(cameras') # CidKeys(cameras))
             => op' = "start"]_vars

\* a refresh() that was served a camera it does not know next to one it
\* knows, and left the keys of cameras as they were
C17_Witness ==
    /\ op = "refresh"
    /\ inp.cams.kind = "ok"
    /\ Len(ServedCams) = 2
    /\ CidHas(cameras, ServedCams[1].name)
    /\ ~CidHas(cameras, ServedCams[2].name)
    /\ CidKeys(cameras) = {"Cam1"}

\* the {clip, time} of the last complete entry for the name in a listing
RecordOf(l, n) == [clip |-> l[LastFor(l, n)].address, time |-> l[LastFor(l, n)].created_at]

\* C18: whenever motion[name] is True, last_record[name] exists and holds
\* the {clip, time} of a clip reported for the name: a flag that turns True
\* does so in a call whose listing held a complete entry for the name, and
\* last_record[name] is then that entry's record; no last_record entry is
\* ever deleted.
C18_MotionImpliesLastRecord ==
    [][/\ \A n \in DOMAIN motion' :
             motion'[n] => /\ n \in DOMAIN last_record'
                           /\ last_record'[n].clip # Missing
                           /\ last_record'[n].time # Missing
       /\ \A n \in DOMAIN motion' :
             (motion'[n] /\ ~(n \in DOMAIN motion /\ motion[n]))
                => /\ ~FetchFailed(inp'.videos)
                   /\ Qualifying(inp'.videos.videos, n)
                   /\ last_record'[n] = RecordOf(inp'.videos.videos, n)
       /\ DOMAIN last_record \subseteq DOMAIN last_record']_vars

\* a check that raised the flag of a known camera and recorded its clip
C18_Witness ==
    /\ op = "check_new_videos"
    /\ \E n \in CidKeys(cameras) :
          /\ n \in DOMAIN motion
          /\ motion[n]
          /\ Qualifying(ServedListing, n)
          /\ last_record[n] = RecordOf(ServedListing, n)

\* C19: a start() whose status response has 'syncmodule' and 'network_id' but
\* lacks one of 'id', 'serial', 'status' goes on and returns True; the three
\* are read in the order id, serial, status up to the first absent key: the
\* fields before it take the response's values, the absent field and those
\* after it keep the values they had, present in the response or not.
C19_PartialExtractionInOrder ==
    [][(op' = "start" /\ BootstrapRuns(inp'))
          => LET s == inp'.status.syncmodule IN
             /\ ret' = "True"
             /\ Len(calls') = 6
             /\ sync_id' = (IF s.id # Missing THEN s.id ELSE sync_id)
             /\ serial' = (IF s.id # Missing /\ s.serial # Missing
                           THEN s.serial ELSE serial)
             /\ status' = (IF s.id # Missing /\ s.serial # Missing /\ s.status # Missing
                           THEN s.status ELSE status)]_vars

\* a start() whose response lacked 'id': serial and status are in the
\* response and still hold what an earlier start() extracted
C19_Witness ==
    /\ op = "start"
    /\ ret = "True"
    /\ BootstrapRuns(inp)
    /\ inp.status.syncmodule.id = Missing
    /\ inp.status.syncmodule.serial # Missing
    /\ inp.status.syncmodule.status # Missing
    /\ serial \notin {None, inp.status.syncmodule.serial}
    /\ status \notin {None, inp.status.syncmodule.status}

\* the call ran the new-video check: it fetched the listing
RanCheck(cs) == \E k \in 1..Len(cs) : cs[k] = Call("request_videos", "-", 0)

\* the names of the cameras a start() served this camera-info list creates:
\* those before the first entry without a name
CreatedBy(l) == {l[i].name : i \in {j \in 1..Len(l) : \A k \in 1..j : l[k].name # Missing}}

\* C20: motion detected during bootstrap is not reported through motion: when
\* the listing fetched inside start() has a complete entry for a camera the
\* same start() creates, motion[name] is False after start() while
\* last_record[name] holds that clip; a flag turns True only in a call that
\* runs the new-video check after the camera's creation and finds a clip for
\* the name, never in the start() that creates the camera.
C20_BootstrapMotionNotReported ==
    [][/\ (op' = "start" /\ BootstrapRuns(inp'))
          => \A n \in CreatedBy(inp'.cams.devicestatus) :
                /\ CidHas(cameras', n)
                /\ n \in DOMAIN motion'
                /\ motion'[n] = FALSE
                /\ (~FetchFailed(inp'.videos) /\ Qualifying(inp'.videos.videos, n))
                      => /\ n \in DOMAIN last_record'
                         /\ last_record'[n] = RecordOf(inp'.videos.videos, n)
       /\ \A n \in DOMAIN motion' :
             (motion'[n] /\ ~(n \in DOMAIN motion /\ motion[n]))
                => /\ op' \in {"check_new_videos", "refresh", "start"}
                   /\ RanCheck(calls')
                   /\ Qualifying(inp'.videos.videos, n)
                   /\ op' = "start" => n \notin CreatedBy(inp'.cams.devicestatus)]_vars

\* a start() that created a camera for which its own listing held a clip
C20_Witness ==
    /\ op = "start"
    /\ ret = "True"
    /\ Len(ServedCams) = 1
    /\ ~FetchFailed(inp.videos)
    /\ Qualifying(ServedListing, ServedCams[1].name)
    /\ motion = [n \in {ServedCams[1].name} |-> FALSE]
    /\ last_record[ServedCams[1].name] = RecordOf(ServedListing, ServedCams[1].name)

====
